---------------------------- MODULE Spec2Model ----------------------------
(***************************************************************************)
(* Model of the log API of src/src/application/api.py: the write path      *)
(* (add_logs, the synchronous __prune_logs, the background                 *)
(* __save_pruned_logs), the read path (get_logs, _merge_logs,              *)
(* get_all_logs), and the two collaborators the API is constructed with,   *)
(* the TemporalCache and the SQLite archive.                               *)
(***************************************************************************)
EXTENDS Integers, Sequences, FiniteSets, TLC

(***************************************************************************)
(* Bounds of the model.                                                    *)
(***************************************************************************)
\* Largest number of entries of one LogList.
MaxBatch == 2
\* Number of POST /logs requests of one run.
MaxSubmits == 2
\* Largest total length of the two inputs of _merge_logs in MergeSpec.
MaxLen == 3

(***************************************************************************)
(* Parameters of the TemporalCache.                                        *)
(***************************************************************************)
\* Maximum age of a resident entry: prune-eligible when now - timestamp > RetentionWindow.
RetentionWindow == 5
\* Hard count ceiling of the cache: add_log raises once it is reached.
Capacity == 3

\* Minutes past 10:00: the timestamps entries carry, and the instants at which
\* the clock is read.
Timestamps == {0, 5, 10}
Clock == {10, 11}
Tags == {"INFO", "WARN"}
Messages == {"x", "y"}

\* src/model/log_entry.py: a timestamp, a classification tag, a message body.
LogEntry == [timestamp : Timestamps, tag : Tags, message : Messages]

SeqsUpTo(S, n) == UNION {[1..k -> S] : k \in 0..n}

\* The entries clients submit in Spec; MergeSpec draws from all of LogEntry.
Submitted == {log \in LogEntry : log.tag = "INFO" /\ log.message = "x"}

\* src/model/log_list.py: an ordered collection of LogEntry under the key "logs".
LogList == [logs : SeqsUpTo(Submitted, MaxBatch)]

isLogList(log_list) == "logs" \in DOMAIN log_list

\* Python's None, and a list value, as __prune_logs returns them.
None == [isNone |-> TRUE, list |-> <<>>]
ListOf(s) == [isNone |-> FALSE, list |-> s]

VARIABLES
    now,        \* the wall clock, read by prune_cache
    cache,      \* TemporalCache: the resident entries, in insertion order
    archive,    \* SQliteConn: the saved rows, in insertion order
    tasks,      \* background tasks added and not yet run
    submits,    \* number of POST /logs requests handled so far
    req,        \* the request the last step handled, NoRequest if it handled none
    resp,       \* the response the last step returned for it
    calls,      \* the calls the last step's handler or task made, in order
    primary,    \* MergeSpec: first argument of _merge_logs
    secondary,  \* MergeSpec: second argument of _merge_logs
    merged      \* MergeSpec: the returned list, None before the call

vars == <<now, cache, archive, tasks, submits, req, resp, calls,
          primary, secondary, merged>>
apiVars == <<now, cache, archive, tasks, submits, req, resp, calls>>
mergeVars == <<primary, secondary, merged>>

(***************************************************************************)
(* _merge_logs (api.py 175-206).                                           *)
(***************************************************************************)
\* Mutant of LogKey: the key leaves the message out.
LogKeyWithoutMessage(log) == <<log.timestamp, log.tag>>

\* log_key = (log.timestamp, log.tag, log.message)
LogKey(log) == <<log.timestamp, log.tag, log.message>>

\* One of the two for-loops: each log whose key is not yet in unique_logs is
\* recorded there and appended to combined_logs.
RECURSIVE AppendUnique(_, _, _)
AppendUnique(logs, unique_logs, combined_logs) ==
    IF logs = <<>>
    THEN [unique_logs |-> unique_logs, combined_logs |-> combined_logs]
    ELSE LET log == Head(logs)
             log_key == LogKey(log)
         IN IF log_key \notin unique_logs
            THEN AppendUnique(Tail(logs), unique_logs \cup {log_key},
                              Append(combined_logs, log))
            ELSE AppendUnique(Tail(logs), unique_logs, combined_logs)

\* Mutant of InsertByTimestamp: `log` goes before the elements of its own
\* timestamp, as an unstable sort may place it.
RECURSIVE InsertBeforeTies(_, _)
InsertBeforeTies(sorted, log) ==
    IF sorted = <<>> THEN <<log>>
    ELSE IF Head(sorted).timestamp < log.timestamp
         THEN <<Head(sorted)>> \o InsertBeforeTies(Tail(sorted), log)
         ELSE <<log>> \o sorted

\* list.sort(key=timestamp): ascending and stable.  `log` goes behind every
\* element whose timestamp is not larger.
RECURSIVE InsertByTimestamp(_, _)
InsertByTimestamp(sorted, log) ==
    IF sorted = <<>> THEN <<log>>
    ELSE IF Head(sorted).timestamp <= log.timestamp
         THEN <<Head(sorted)>> \o InsertByTimestamp(Tail(sorted), log)
         ELSE <<log>> \o sorted

RECURSIVE SortFrom(_, _)
SortFrom(logs, sorted) ==
    IF logs = <<>> THEN sorted
    ELSE SortFrom(Tail(logs), InsertByTimestamp(sorted, Head(logs)))

\* Mutant of SortByTimestamp: the list is returned as combined.
NotSorted(logs) == logs

SortByTimestamp(logs) == SortFrom(logs, <<>>)

merge_logs(cache_logs, db_logs) ==
    LET fromCache == AppendUnique(cache_logs, {}, <<>>)
        fromDb == AppendUnique(db_logs, fromCache.unique_logs,
                               fromCache.combined_logs)
    IN SortByTimestamp(fromDb.combined_logs)


(***************************************************************************)
(* TemporalCache (src/services/temporal_cache.py): the entries in          *)
(* insertion order, an age-based retention window and a count ceiling.     *)
(***************************************************************************)
\* add_log raises a capacity error when the cache is at its ceiling.
CacheFull(c) == Len(c) >= Capacity

\* add_log(entry): inserts unconditionally, duplicates may coexist.
cache_add_log(c, log_entry) == Append(c, log_entry)

InRange(log, start_time, end_time) ==
    start_time <= log.timestamp /\ log.timestamp <= end_time

\* get_logs(start, end): every held entry of the inclusive range, ascending.
cache_get_logs(c, start_time, end_time) ==
    SortByTimestamp(SelectSeq(c, LAMBDA log : InRange(log, start_time, end_time)))

\* get_all_logs(): every held entry.
cache_get_all_logs(c) == c

\* An entry is prune-eligible when now - timestamp > RetentionWindow.
Expired(log, t) == t - log.timestamp > RetentionWindow

\* prune_cache() at time t: removes every expired entry and returns the removed
\* ones; when it raises it has removed nothing.
prune_cache(c, t, raises) ==
    IF raises
    THEN [raised |-> TRUE, cache |-> c, removed |-> <<>>]
    ELSE [raised |-> FALSE,
          cache |-> SelectSeq(c, LAMBDA log : ~Expired(log, t)),
          removed |-> SelectSeq(c, LAMBDA log : Expired(log, t))]

(***************************************************************************)
(* SQliteConn (src/services/sqlite_conn.py).                               *)
(***************************************************************************)
\* save_logs(logs): appends the rows.
db_save_logs(db, logs) == db \o logs

\* get_logs(start, end): the rows of the inclusive range, in storage order.
db_get_logs(db, start_time, end_time) ==
    SelectSeq(db, LAMBDA log : InRange(log, start_time, end_time))

(***************************************************************************)
(* Requests, responses and the record of calls.                            *)
(***************************************************************************)
Call(name, arg) == [call |-> name, arg |-> arg]

\* datetime.isoformat() of minute t past 10:00.
isoformat(t) ==
    "2023-04-23T10:" \o (IF t < 10 THEN "0" ELSE "") \o ToString(t) \o ":00"

\* jsonable_encoder(log.model_dump())
jsonable(log) ==
    [timestamp |-> isoformat(log.timestamp), tag |-> log.tag,
     message |-> log.message]

jsonable_logs(logs) == [i \in 1..Len(logs) |-> jsonable(logs[i])]

JSONResponse(content, status_code) ==
    [content |-> content, status_code |-> status_code]

\* What the framework answers when a handler raises.
ServerError == JSONResponse([detail |-> "Internal Server Error"], 500)

NoRequest == [endpoint |-> "none"]
NoResponse == JSONResponse([detail |-> "none"], 0)

(***************************************************************************)
(* add_logs (api.py 89-135) with __prune_logs (57-71), and the background  *)
(* task __save_pruned_logs (73-86).                                        *)
(***************************************************************************)
\* Mutant of logs_of: the loop over a LogList stops after its first entry.
logs_of_first(log_list) ==
    IF isLogList(log_list)
    THEN (IF log_list.logs = <<>> THEN <<>> ELSE <<Head(log_list.logs)>>)
    ELSE <<log_list>>

\* 118-126: the entries of the submission, in the order they are added.
logs_of(log_list) ==
    IF isLogList(log_list) THEN log_list.logs ELSE <<log_list>>

\* Mutant of logs_count: only the entries of a LogList are counted.
logs_count_of_list(log_list) ==
    IF isLogList(log_list) THEN Len(log_list.logs) ELSE 0

\* 123, 126
logs_count(log_list) ==
    IF isLogList(log_list) THEN Len(log_list.logs) ELSE 1

\* 120-122 / 125: add_log for each entry in order; a raise ends the handler.
RECURSIVE AddEach(_, _, _)
AddEach(logs, c, done) ==
    IF logs = <<>> THEN [raised |-> FALSE, cache |-> c, calls |-> done]
    ELSE IF CacheFull(c)
         THEN [raised |-> TRUE, cache |-> c,
               calls |-> Append(done, Call("cache.add_log", <<Head(logs)>>))]
         ELSE AddEach(Tail(logs), cache_add_log(c, Head(logs)),
                      Append(done, Call("cache.add_log", <<Head(logs)>>)))

\* 66-71: the removed entries, or None when prune_cache raised.
prune_logs(outcome) ==
    IF outcome.raised THEN None ELSE ListOf(outcome.removed)

\* 129-135
AddLogsResponse(log_list) ==
    JSONResponse([message |-> "Successfully added "
                                \o ToString(logs_count(log_list)) \o " logs",
                  count |-> logs_count(log_list)], 201)

\* Mutant of add_logs: __prune_logs has no try/except, so that a prune_cache
\* that raises ends the handler.
add_logs_uncaught(log_list, c, t, pruneRaises) ==
    LET added == AddEach(logs_of(log_list), c, <<>>)
        outcome == prune_cache(added.cache, t, pruneRaises)
    IN IF added.raised
       THEN [cache |-> added.cache,
             tasks |-> <<>>,
             calls |-> Append(added.calls, Call("raise", <<>>)),
             resp |-> ServerError]
       ELSE IF outcome.raised
       THEN [cache |-> outcome.cache,
             tasks |-> <<>>,
             calls |-> added.calls
                       \o <<Call("cache.prune_cache", <<>>), Call("raise", <<>>)>>,
             resp |-> ServerError]
       ELSE [cache |-> outcome.cache,
             tasks |-> <<[request |-> log_list,
                          response |-> AddLogsResponse(log_list),
                          func |-> "__save_pruned_logs",
                          pruned_logs |-> prune_logs(outcome)]>>,
             calls |-> added.calls
                       \o <<Call("cache.prune_cache", <<>>),
                            Call("background_task.add_task", <<>>),
                            Call("return JSONResponse", <<>>)>>,
             resp |-> AddLogsResponse(log_list)]

\* Mutant of add_logs: the cache is pruned before the entries are added.
add_logs_prune_first(log_list, c, t, pruneRaises) ==
    LET outcome == prune_cache(c, t, pruneRaises)
        added == AddEach(logs_of(log_list), outcome.cache, <<>>)
    IN IF added.raised
       THEN [cache |-> added.cache,
             tasks |-> <<>>,
             calls |-> <<Call("cache.prune_cache", <<>>)>>
                       \o Append(added.calls, Call("raise", <<>>)),
             resp |-> ServerError]
       ELSE [cache |-> added.cache,
             tasks |-> <<[request |-> log_list,
                          response |-> AddLogsResponse(log_list),
                          func |-> "__save_pruned_logs",
                          pruned_logs |-> prune_logs(outcome)]>>,
             calls |-> <<Call("cache.prune_cache", <<>>)>>
                       \o added.calls
                       \o <<Call("background_task.add_task", <<>>),
                            Call("return JSONResponse", <<>>)>>,
             resp |-> AddLogsResponse(log_list)]

\* The handler on cache c at time t.  Line 128 evaluates self.__prune_logs()
\* as the argument of add_task: prune_cache runs inside the handler, after the
\* adds and before the response is returned, and the task holds its result.
\* The task belongs to this request's BackgroundTasks, which the framework
\* runs once the response it is attached to has been sent.
add_logs(log_list, c, t, pruneRaises) ==
    LET added == AddEach(logs_of(log_list), c, <<>>)
        outcome == prune_cache(added.cache, t, pruneRaises)
    IN IF added.raised
       THEN [cache |-> added.cache,
             tasks |-> <<>>,
             calls |-> Append(added.calls, Call("raise", <<>>)),
             resp |-> ServerError]
       ELSE [cache |-> outcome.cache,
             tasks |-> <<[request |-> log_list,
                          response |-> AddLogsResponse(log_list),
                          func |-> "__save_pruned_logs",
                          pruned_logs |-> prune_logs(outcome)]>>,
             calls |-> added.calls
                       \o <<Call("cache.prune_cache", <<>>),
                            Call("background_task.add_task", <<>>),
                            Call("return JSONResponse", <<>>)>>,
             resp |-> AddLogsResponse(log_list)]

AddLogs ==
    /\ submits < MaxSubmits
    /\ \E log_list \in Submitted \cup LogList : \E pruneRaises \in BOOLEAN :
        LET done == add_logs(log_list, cache, now, pruneRaises)
        IN /\ req' = [endpoint |-> "POST /logs", log_list |-> log_list]
           /\ cache' = done.cache
           /\ tasks' = tasks \o done.tasks
           /\ calls' = done.calls
           /\ resp' = done.resp
    /\ submits' = submits + 1
    /\ UNCHANGED <<now, archive, mergeVars>>

\* Mutant of NotPruned: only None is tested for.
NotPrunedNoneOnly(pruned_logs) == pruned_logs.isNone

\* 82-83: `if not pruned_logs` holds for None and for the empty list.
NotPruned(pruned_logs) == pruned_logs.isNone \/ pruned_logs.list = <<>>

\* 73-86 on archive db; save_logs may raise, and then has saved nothing.
save_pruned_logs(pruned_logs, db, saveRaises) ==
    IF NotPruned(pruned_logs)
    THEN [archive |-> db, calls |-> <<Call("return self", <<>>)>>]
    ELSE IF saveRaises
         THEN [archive |-> db,
               calls |-> <<Call("db_service.save_logs", pruned_logs.list),
                           Call("raise", <<>>)>>]
         ELSE [archive |-> db_save_logs(db, pruned_logs.list),
               calls |-> <<Call("db_service.save_logs", pruned_logs.list),
                           Call("return self", <<>>)>>]

RemoveAt(s, i) == SubSeq(s, 1, i - 1) \o SubSeq(s, i + 1, Len(s))

\* One background task runs; it was added by a handler that has returned its
\* response.  Tasks of different requests run in any order.
SavePrunedLogs ==
    \E i \in 1..Len(tasks) : \E saveRaises \in BOOLEAN :
        LET done == save_pruned_logs(tasks[i].pruned_logs, archive, saveRaises)
        IN /\ saveRaises => ~NotPruned(tasks[i].pruned_logs)
           /\ tasks' = RemoveAt(tasks, i)
           /\ archive' = done.archive
           /\ calls' = done.calls
           /\ req' = NoRequest
           /\ resp' = NoResponse
           /\ UNCHANGED <<now, cache, submits, mergeVars>>

(***************************************************************************)
(* get_logs (api.py 137-173) and get_all_logs (208-221).                   *)
(***************************************************************************)
\* Mutant of get_logs: the answer is built from the cache alone.
get_logs_cache_only(start_time, end_time, c, db, queryRaises) ==
    LET cache_logs == cache_get_logs(c, start_time, end_time)
    IN IF queryRaises
       THEN [calls |-> <<Call("cache.get_logs", <<start_time, end_time>>),
                         Call("db_service.get_logs", <<start_time, end_time>>),
                         Call("raise", <<>>)>>,
             resp |-> ServerError]
       ELSE [calls |-> <<Call("cache.get_logs", <<start_time, end_time>>),
                         Call("db_service.get_logs", <<start_time, end_time>>),
                         Call("return JSONResponse", <<>>)>>,
             resp |-> JSONResponse([logs |-> jsonable_logs(cache_logs)], 200)]

\* The handler on cache c and archive db; the archive query may raise.
get_logs(start_time, end_time, c, db, queryRaises) ==
    LET cache_logs == cache_get_logs(c, start_time, end_time)
        db_logs == db_get_logs(db, start_time, end_time)
        overall_logs == merge_logs(cache_logs, db_logs)
    IN IF queryRaises
       THEN [calls |-> <<Call("cache.get_logs", <<start_time, end_time>>),
                         Call("db_service.get_logs", <<start_time, end_time>>),
                         Call("raise", <<>>)>>,
             resp |-> ServerError]
       ELSE [calls |-> <<Call("cache.get_logs", <<start_time, end_time>>),
                         Call("db_service.get_logs", <<start_time, end_time>>),
                         Call("return JSONResponse", <<>>)>>,
             resp |-> JSONResponse([logs |-> jsonable_logs(overall_logs)], 200)]

GetLogs ==
    \E start_time \in Timestamps, end_time \in Timestamps, queryRaises \in BOOLEAN :
        LET done == get_logs(start_time, end_time, cache, archive, queryRaises)
        IN /\ req' = [endpoint |-> "GET /logs", start_time |-> start_time,
                      end_time |-> end_time]
           /\ resp' = done.resp
           /\ calls' = done.calls
           /\ UNCHANGED <<now, cache, archive, tasks, submits, mergeVars>>

\* Mutant of get_all_logs: the entries older than the window are left out.
get_all_logs_unexpired(c) ==
    JSONResponse([logs |-> jsonable_logs(
        SelectSeq(cache_get_all_logs(c), LAMBDA log : ~Expired(log, now)))], 200)

get_all_logs(c) ==
    JSONResponse([logs |-> jsonable_logs(cache_get_all_logs(c))], 200)

GetAllLogs ==
    /\ req' = [endpoint |-> "GET /logs/all"]
    /\ resp' = get_all_logs(cache)
    /\ calls' = <<Call("cache.get_all_logs", <<>>),
                  Call("return JSONResponse", <<>>)>>
    /\ UNCHANGED <<now, cache, archive, tasks, submits, mergeVars>>

\* Time passes between requests.
Tick ==
    /\ \E t \in Clock : t > now
    /\ now' = CHOOSE t \in Clock : t > now /\ \A u \in Clock : u > now => t <= u
    /\ req' = NoRequest
    /\ resp' = NoResponse
    /\ calls' = <<>>
    /\ UNCHANGED <<cache, archive, tasks, submits, mergeVars>>

Earliest == CHOOSE t \in Clock : \A u \in Clock : t <= u

\* API.__init__ (27-35): an empty cache and an empty database.
Init ==
    /\ now = Earliest
    /\ cache = <<>>
    /\ archive = <<>>
    /\ tasks = <<>>
    /\ submits = 0
    /\ req = NoRequest
    /\ resp = NoResponse
    /\ calls = <<>>
    /\ primary = <<>>
    /\ secondary = <<>>
    /\ merged = None

Next == AddLogs \/ SavePrunedLogs \/ GetLogs \/ GetAllLogs \/ Tick

Spec == Init /\ [][Next]_vars

(***************************************************************************)
(* MergeSpec: _merge_logs applied to every pair of lists of total length   *)
(* at most MaxLen.                                                         *)
(***************************************************************************)
MergeInputs ==
    UNION {[1..k -> LogEntry] \X SeqsUpTo(LogEntry, MaxLen - k) : k \in 0..MaxLen}

MergeInit ==
    /\ now = Earliest
    /\ cache = <<>>
    /\ archive = <<>>
    /\ tasks = <<>>
    /\ submits = 0
    /\ req = NoRequest
    /\ resp = NoResponse
    /\ calls = <<>>
    /\ \E pair \in MergeInputs : primary = pair[1] /\ secondary = pair[2]
    /\ merged = None

MergeLogs ==
    /\ merged = None
    /\ merged' = ListOf(merge_logs(primary, secondary))
    /\ UNCHANGED <<primary, secondary, apiVars>>

MergeNext == MergeLogs

MergeSpec == MergeInit /\ [][MergeNext]_vars


(***************************************************************************)
(* The claims.                                                             *)
(***************************************************************************)
Range(s) == {s[i] : i \in 1..Len(s)}

Count(x, s) == Cardinality({i \in 1..Len(s) : s[i] = x})

\* The entries a request body carries, in order.
Entries(log_list) ==
    IF "logs" \in DOMAIN log_list THEN log_list.logs ELSE <<log_list>>

WithinWindow(log, t) == t - log.timestamp <= RetentionWindow

\* The last step handled a POST /logs and returned the 201 acknowledgment.
Acknowledged == req.endpoint = "POST /logs" /\ resp.status_code = 201

\* The last step handled a GET /logs and returned its 200 answer.
Answered == req.endpoint = "GET /logs" /\ resp.status_code = 200

\* log is returned by every cache range query that covers its timestamp.
Queryable(log) ==
    \A start_time \in Timestamps, end_time \in Timestamps :
        InRange(log, start_time, end_time)
            => log \in Range(cache_get_logs(cache, start_time, end_time))

Held(start_time, end_time) ==
    {log \in Range(cache) \cup Range(archive) : InRange(log, start_time, end_time)}

\* The LogEntry a JSON object of a response stands for.
FromJson(obj) == CHOOSE log \in LogEntry : jsonable(log) = obj

\* C2: get_logs(start, end) returns one entry for each distinct (timestamp,
\* tag, message) triple of the range held in the cache or in the archive at
\* query time, nothing else, in ascending time order.
C2_GetLogsIsMergeOfBoth ==
    Answered =>
        LET logs == resp.content.logs
            held == Held(req.start_time, req.end_time)
        IN /\ \A i \in 1..Len(logs) : \E log \in held : logs[i] = jsonable(log)
           /\ \A log \in held : \E i \in 1..Len(logs) : logs[i] = jsonable(log)
           /\ Len(logs) = Cardinality(held)
           /\ \A i, j \in 1..Len(logs) :
                i < j => FromJson(logs[i]).timestamp <= FromJson(logs[j]).timestamp

\* The cache and the archive hold the same entry, the archive holds an older
\* one besides, and the answer has the two of them.
C2_Witness ==
    /\ Answered
    /\ \E both \in Range(cache) \cap Range(archive) :
       \E older \in Range(archive) \ Range(cache) :
        /\ older.timestamp < both.timestamp
        /\ resp.content.logs = <<jsonable(older), jsonable(both)>>

MergeDone == ~merged.isNone

\* C3: the output of _merge_logs holds no triple twice, and its triples are
\* those of primary and secondary together.
C3_MergeDedup ==
    MergeDone =>
        /\ \A i, j \in 1..Len(merged.list) :
            i # j => merged.list[i] # merged.list[j]
        /\ Range(merged.list) = Range(primary) \cup Range(secondary)

\* primary holds an entry twice and secondary holds it again: one is returned.
C3_Witness ==
    /\ MergeDone
    /\ Len(primary) = 2 /\ primary[1] = primary[2]
    /\ secondary = <<primary[1]>>
    /\ merged.list = <<primary[1]>>

\* C4: the output of _merge_logs is non-decreasing by timestamp.
C4_MergeOrdering ==
    MergeDone =>
        \A i, j \in 1..Len(merged.list) :
            i < j => merged.list[i].timestamp <= merged.list[j].timestamp

\* Both inputs are in descending order and the newest entry comes first.
C4_Witness ==
    /\ MergeDone
    /\ Len(primary) = 2 /\ primary[1].timestamp > primary[2].timestamp
    /\ Len(secondary) = 1 /\ primary[2].timestamp > secondary[1].timestamp
    /\ Len(merged.list) = 3
    /\ merged.list[1] = secondary[1]


\* C5 as stated: neither cache.prune_cache nor db_service.save_logs is called
\* before the acknowledgment of add_logs is produced.  (A background task runs
\* after its response; within a handler the calls precede the return.)
C5_PruneAndSaveAfterAck ==
    \A i, j \in 1..Len(calls) :
        /\ calls[i].call \in {"cache.prune_cache", "db_service.save_logs"}
        /\ calls[j].call = "return JSONResponse"
        => j < i

\* The task the acknowledged submission has added.
NewTask == tasks[Len(tasks)]

\* The last step handled a POST /logs whose prune_cache raised.
PruneFailed ==
    /\ req.endpoint = "POST /logs"
    /\ \E k \in 1..Len(calls) : calls[k].call = "cache.prune_cache"
    /\ \/ calls[Len(calls)].call = "raise"
       \/ NewTask.pruned_logs.isNone

\* This step runs task i, and its save_logs raises.
SaveFailed(i) ==
    /\ tasks' = RemoveAt(tasks, i)
    /\ Len(calls') = 2
    /\ calls'[1].call = "db_service.save_logs"
    /\ calls'[2].call = "raise"

FullCount(request, response) ==
    /\ response.status_code = 201
    /\ response.content.count = Len(Entries(request.log_list))

ArchiveQueryFailed ==
    /\ req.endpoint = "GET /logs"
    /\ Len(calls) = 3
    /\ calls[2].call = "db_service.get_logs"
    /\ calls[3].call = "raise"

\* C7 as stated: when the archive query fails, get_logs answers with the
\* entries of the cache for the range and a warning.
C7_DegradesToCacheOnly ==
    ArchiveQueryFailed =>
        /\ resp.status_code = 200
        /\ resp.content.logs
             = jsonable_logs(cache_get_logs(cache, req.start_time, req.end_time))
        /\ "warning" \in DOMAIN resp.content

\* C8 as stated: a range with start > end is rejected as an input error, and
\* neither the cache nor the archive is read for it.
C8_InvalidRangeRejected ==
    (req.endpoint = "GET /logs" /\ req.start_time > req.end_time) =>
        /\ resp.status_code \in {400, 422}
        /\ \A k \in 1..Len(calls) :
            calls[k].call \notin {"cache.get_logs", "db_service.get_logs"}

\* The arguments of the add_log calls among cs, in order.
AddCalls(cs) ==
    LET adds == SelectSeq(cs, LAMBDA c : c.call = "cache.add_log")
    IN [k \in 1..Len(adds) |-> adds[k].arg[1]]

\* On cache c at time t a single entry and the LogList of that entry alone
\* make the same calls, leave the same cache, hand the same list to the
\* background task and get the same response.
SingleSameAsBatch(c, t) ==
    \A log \in Submitted : \A pruneRaises \in BOOLEAN :
        LET single == add_logs(log, c, t, pruneRaises)
            batch == add_logs([logs |-> <<log>>], c, t, pruneRaises)
        IN /\ single.cache = batch.cache
           /\ single.calls = batch.calls
           /\ single.resp = batch.resp
           /\ single.resp.status_code = 201 => single.resp.content.count = 1
           /\ Len(single.tasks) = Len(batch.tasks)
           /\ \A k \in 1..Len(single.tasks) :
                single.tasks[k].pruned_logs = batch.tasks[k].pruned_logs

\* C9: an acknowledged add_logs has called add_log once for each entry, in
\* submission order, every entry added is in the cache or in the list handed
\* to the save, the count is the number of entries, and a single entry has
\* the effect of the batch of that entry.
C9_EachEntryAddedOnceInOrder ==
    [][submits' = submits + 1 =>
        /\ SingleSameAsBatch(cache, now)
        /\ Acknowledged' =>
            LET logs == Entries(req'.log_list)
            IN /\ AddCalls(calls') = logs
               /\ resp'.content.count = Len(logs)
               /\ \A log \in LogEntry :
                    Count(log, cache') + Count(log, NewTask'.pruned_logs.list)
                        = Count(log, cache) + Count(log, logs)
      ]_vars

\* A batch of two different entries has been acknowledged with count 2.
C9_Witness ==
    /\ Acknowledged
    /\ req.log_list \in LogList
    /\ Len(req.log_list.logs) = 2
    /\ req.log_list.logs[1].timestamp > req.log_list.logs[2].timestamp
    /\ AddCalls(calls) = req.log_list.logs
    /\ resp.content.count = 2

\* This step is an acknowledged add_logs whose prune_cache returned.
PruneReturned ==
    /\ submits' = submits + 1
    /\ Acknowledged'
    /\ ~NewTask'.pruned_logs.isNone

\* What the cache holds when prune_cache is called in this step.
BeforePrune == cache \o Entries(req'.log_list)

\* Entries of 10:00, 10:05 and 10:10 at 10:11, the window being 5 minutes,
\* no earlier prune having failed.
ScenarioA ==
    /\ now = 11
    /\ \A k \in 1..Len(tasks) : ~tasks[k].pruned_logs.isNone
    /\ RetentionWindow = 5
    /\ Len(BeforePrune) = 3
    /\ {BeforePrune[k].timestamp : k \in 1..3} = {0, 5, 10}

AddFailed ==
    /\ req.endpoint = "POST /logs"
    /\ Len(calls) >= 2
    /\ calls[Len(calls)].call = "raise"
    /\ calls[Len(calls) - 1].call = "cache.add_log"

\* The entries of that submission that were added before the add that raised.
Landed == SubSeq(AddCalls(calls), 1, Len(AddCalls(calls)) - 1)

\* C11 as stated: when an add fails with a capacity error part-way through a
\* batch, the response is not a success, reports no entry that was not added,
\* and reports the entries added before the failure as accepted.
C11_PartialSuccessReported ==
    AddFailed =>
        /\ resp.status_code # 201
        /\ "accepted" \in DOMAIN resp.content
        /\ resp.content.accepted = jsonable_logs(Landed)
        /\ \A log \in Range(Landed) : log \in Range(cache)

\* C12 as stated: an acknowledged entry is never invisible to get_logs: every
\* get_logs over a range that covers the timestamp of an entry of a submission
\* acknowledged earlier, its save still pending or not, returns that entry.
\* (The submissions whose background task has not run yet are acknowledged
\* ones; the statement is made of their entries.)
C12_AckedEntryNeverInvisible ==
    Answered =>
        \A k \in 1..Len(tasks) :
            \A log \in Range(Entries(tasks[k].request)) :
                InRange(log, req.start_time, req.end_time)
                    => \E i \in 1..Len(resp.content.logs) :
                            resp.content.logs[i] = jsonable(log)

\* log is in the cache, in the hand-off of a pending task, or in the archive.
Kept(log) ==
    \/ log \in Range(cache)
    \/ \E k \in 1..Len(tasks) : log \in Range(tasks[k].pruned_logs.list)
    \/ log \in Range(archive)

\* This step runs task i.
TaskRuns(i) == tasks' = RemoveAt(tasks, i) /\ submits' = submits

\* C13 as stated: the entries a submission's prune removes from the cache are
\* exactly, and each once, the ones its background step passes to save_logs,
\* and an entry leaves memory only after a successful save: an entry that is
\* in the cache, in a pending hand-off or in the archive stays in one of them,
\* also when the save fails.
C13_NoEvictedEntryDropped ==
    [][/\ PruneReturned =>
            \A log \in LogEntry :
                Count(log, BeforePrune)
                    = Count(log, cache') + Count(log, NewTask'.pruned_logs.list)
       /\ \A i \in 1..Len(tasks) :
            (TaskRuns(i) /\ tasks[i].pruned_logs.list # <<>>) =>
                /\ calls'[1].call = "db_service.save_logs"
                /\ calls'[1].arg = tasks[i].pruned_logs.list
       /\ \A log \in LogEntry : Kept(log) => Kept(log)'
      ]_vars

HasCall(cs, name) == \E k \in 1..Len(cs) : cs[k].call = name

PruneIndex(cs) == CHOOSE p \in 1..Len(cs) : cs[p].call = "cache.prune_cache"

\* C14: a submission's prune_cache is called only after add_log has been
\* called for each of its entries, its save runs in a later step than the
\* handler that added them, as a task of that acknowledged submission, and
\* the tasks of different submissions run in any order.
C14_PruneAndSaveAfterAdds ==
    [][/\ (submits' = submits + 1 /\ HasCall(calls', "cache.prune_cache")) =>
            LET p == PruneIndex(calls')
            IN /\ AddCalls(SubSeq(calls', 1, p - 1)) = Entries(req'.log_list)
               /\ \A k \in p..Len(calls') : calls'[k].call # "cache.add_log"
               /\ ~HasCall(calls', "db_service.save_logs")
               /\ tasks' = Append(tasks, NewTask')
               /\ NewTask'.request = req'.log_list
       /\ HasCall(calls', "db_service.save_logs") =>
            \E i \in 1..Len(tasks) :
                /\ TaskRuns(i)
                /\ calls'[1].arg = tasks[i].pruned_logs.list
                /\ FullCount([log_list |-> tasks[i].request], tasks[i].response)
      ]_vars

\* The save of the second submission has run before the task of the first:
\* the pending task was added at 10:10, when its 10:05 entry was within the
\* window, and the archive holds that entry, evicted by the prune at 10:11.
C14_Witness ==
    /\ now = 11
    /\ submits = 2
    /\ Len(tasks) = 1
    /\ tasks[1].request \in Submitted
    /\ tasks[1].request.timestamp = 5
    /\ tasks[1].pruned_logs = ListOf(<<>>)
    /\ archive = <<tasks[1].request>>
    /\ HasCall(calls, "db_service.save_logs")

\* C15: save_logs is called only with a non-empty list: a task whose prune
\* returned the empty list, or raised and left None, calls no save_logs and
\* leaves the archive unchanged.
C15_SaveOnlyNonEmpty ==
    [][/\ \A k \in 1..Len(calls') :
            calls'[k].call = "db_service.save_logs" => calls'[k].arg # <<>>
       /\ \A i \in 1..Len(tasks) :
            (/\ TaskRuns(i)
             /\ tasks[i].pruned_logs.isNone \/ tasks[i].pruned_logs.list = <<>>)
                => /\ ~HasCall(calls', "db_service.save_logs")
                   /\ archive' = archive
      ]_vars

\* The tasks of both submissions have run; the last one held the empty list or
\* None and has returned without a call of save_logs, the archive being empty
\* and the cache not.
C15_Witness ==
    /\ submits = 2
    /\ tasks = <<>>
    /\ calls = <<Call("return self", <<>>)>>
    /\ archive = <<>>
    /\ cache # <<>>

\* C16: get_logs and get_all_logs call neither prune_cache nor save_logs and
\* leave the cache, the archive and the pending tasks unchanged; in a step
\* that is no submission the cache keeps every entry, so that an entry older
\* than the retention window stays resident and is returned by get_all_logs
\* and by every get_logs over a range that covers it.
C16_EvictionOnlyOnWrite ==
    [][/\ req'.endpoint \in {"GET /logs", "GET /logs/all"} =>
            /\ cache' = cache /\ archive' = archive /\ tasks' = tasks
            /\ ~HasCall(calls', "cache.prune_cache")
            /\ ~HasCall(calls', "db_service.save_logs")
       /\ submits' = submits => cache' = cache
       /\ (req'.endpoint = "GET /logs/all" /\ resp'.status_code = 200) =>
            resp'.content.logs = jsonable_logs(cache)
       /\ Answered' =>
            \A log \in Range(cache) :
                InRange(log, req'.start_time, req'.end_time)
                    => \E i \in 1..Len(resp'.content.logs) :
                            resp'.content.logs[i] = jsonable(log)
      ]_vars

\* At 10:11 the 10:05 entry is older than the window; it is still the one
\* resident entry and is what get_all_logs has returned.
C16_Witness ==
    /\ req.endpoint = "GET /logs/all"
    /\ now = 11
    /\ Len(cache) = 1
    /\ cache[1].timestamp = 5
    /\ Expired(cache[1], now)
    /\ resp.content.logs = <<jsonable(cache[1])>>

\* The place of the first occurrence of log in s.
FirstIndex(log, s) ==
    CHOOSE i \in 1..Len(s) : s[i] = log /\ \A j \in 1..(i - 1) : s[j] # log

\* C17: in the output of _merge_logs two entries of the same timestamp stand
\* in the order of their first occurrences in primary followed by secondary:
\* a primary entry precedes a secondary entry of its timestamp, and a triple
\* of both inputs takes the place of its occurrence in primary.
C17_MergeStableTies ==
    MergeDone =>
        \A i, j \in 1..Len(merged.list) :
            (i < j /\ merged.list[i].timestamp = merged.list[j].timestamp)
                => FirstIndex(merged.list[i], primary \o secondary)
                     < FirstIndex(merged.list[j], primary \o secondary)

\* secondary holds an entry of primary's timestamp followed by primary's own
\* entry: the output is primary's entry, then the other one.
C17_Witness ==
    /\ MergeDone
    /\ Len(primary) = 1
    /\ Len(secondary) = 2
    /\ secondary[2] = primary[1]
    /\ secondary[1] # primary[1]
    /\ secondary[1].timestamp = primary[1].timestamp
    /\ merged.list = <<primary[1], secondary[1]>>

==========================================================================
